---- MODULE Spec2Model ----
(***************************************************************************)
(* godcinfo: a single-pass inventory report of a vSphere datacenter.       *)
(* main() parses the flags, logs in, resolves a datacenter, lists its      *)
(* clusters and, for each cluster, discovers the datastore clusters        *)
(* (StoragePods), reads the datastores the cluster reaches and reports     *)
(* them under the datastore clusters or as standalone, either as text      *)
(* lines written as it goes or as one JSON document at the end.            *)
(*                                                                         *)
(* The model follows main() of src/main.go step by step: one action per    *)
(* stretch of code between two calls to the vSphere SDK.  What the SDK     *)
(* returns (an error, a list) is drawn nondeterministically at the call.   *)
(***************************************************************************)
EXTENDS Integers, Sequences, FiniteSets, TLC

VARIABLES
    pc,               \* position of main()
    args,             \* the command line: one entry per flag
    env,              \* the environment variables read by parseFlags
    inv,              \* the vSphere inventory the run sees
    cfg,              \* Config, as parseFlags returns it
    session,          \* "none", "open" (logged in) or "closed" (logged out)
    dc,               \* name of the resolved datacenter
    clusters,         \* names of the clusters of the datacenter
    idx,              \* index of the cluster of the current loop iteration
    infraInfo,        \* InfrastructureInfo (JSON mode)
    clusterInfo,      \* ClusterInfo of the current iteration (JSON mode)
    datastoreFolders, \* the folders FolderList returned
    storagePods,      \* mo.StoragePod values collected in this iteration
    clusterMo,        \* clusterMo.Datastore: references the cluster reaches
    datastores,       \* mo.Datastore values retrieved in this iteration
    out,              \* the text lines written to standard output so far
    docs,             \* the JSON documents written to standard output so far
    exitCode,         \* process exit status, Running until the process ends
    passes            \* history: how each finished loop iteration ended

vars == <<pc, args, env, inv, cfg, session, dc, clusters, idx, infraInfo,
          clusterInfo, datastoreFolders, storagePods, clusterMo, datastores,
          out, docs, exitCode, passes>>

----------------------------------------------------------------------------
(* Bounds of the model.                                                    *)

\* datastore references are 1..NumDatastores (inventories with one cluster)
NumDatastores == 2
\* at most this many datastore clusters (inventories with one cluster)
MaxPods == 2

\* the clusters of the datacenter are a prefix of this list
ClusterNames == <<"Cluster01", "Cluster02">>
PodNames == <<"StoragePod01", "StoragePod02", "StoragePod03">>
DatacenterNames == <<"DC01", "DC02">>

\* name, capacity and free space (bytes) of the datastore with reference r;
\* names are distinct, so a name in the output identifies the datastore
DsNames == <<"B", "A", "D", "C">>
DsCapacity == <<1073741824, 1610612736, 2147483647, 0>>
DsFreeSpace == <<536870912, 1073741824, 5368709, 0>>

Refs == 1..NumDatastores

\* exitCode while the process has not ended
Running == 0 - 1

----------------------------------------------------------------------------
(* Sequences.                                                              *)

Range(s) == {s[i] : i \in 1..Len(s)}

Reverse(s) == [i \in 1..Len(s) |-> s[Len(s) + 1 - i]]

RECURSIVE Concat(_)
Concat(ss) == IF ss = <<>> THEN <<>> ELSE Head(ss) \o Concat(Tail(ss))

\* the ascending sequence of a set of integers
RECURSIVE SetToSeq(_)
SetToSeq(S) ==
    IF S = {} THEN <<>>
    ELSE LET m == CHOOSE x \in S : \A y \in S : x <= y
         IN  <<m>> \o SetToSeq(S \ {m})

----------------------------------------------------------------------------
(* Output.  A text line is a record: its kind, its text (a name or the    *)
(* characters of a rule) and, for a datastore line, capacity and free     *)
(* space as printed, in hundredths of a GB.                               *)

Line(kind, text) == [kind |-> kind, text |-> text, cap |-> 0, free |-> 0]

DsLine(name, cap, free) == [kind |-> "ds", text |-> name, cap |-> cap, free |-> free]

\* strings.Repeat(s, n)
RECURSIVE Repeat(_, _)
Repeat(s, n) == IF n <= 0 THEN "" ELSE s \o Repeat(s, n - 1)

----------------------------------------------------------------------------
(* parseFlags.                                                             *)

Absent == [given |-> FALSE, value |-> ""]
Given(v) == [given |-> TRUE, value |-> v]

\* flag.StringVar(&x, name, os.Getenv(VAR), ...): the environment variable is
\* the default, a flag on the command line replaces it (also by "")
FlagOrEnvAlways(f, e) == e
FlagOrEnv(f, e) == IF f.given THEN f.value ELSE e

parseFlags(a, e) ==
    [URL        |-> FlagOrEnv(a.url, e.VSPHERE_URL),
     Username   |-> FlagOrEnv(a.username, e.VSPHERE_USERNAME),
     Password   |-> FlagOrEnv(a.password, e.VSPHERE_PASSWORD),
     Insecure   |-> TRUE,
     Datacenter |-> FlagOrEnv(a.datacenter, e.VSPHERE_DATACENTER),
     OutputJSON |-> a.o]

MissingCredentials(c) == c.URL = "" \/ c.Username = "" \/ c.Password = ""

NoCfg == [URL |-> "", Username |-> "", Password |-> "", Insecure |-> TRUE,
          Datacenter |-> "", OutputJSON |-> FALSE]

\* os.Exit(code) after writing lines: deferred calls do not run
ExitStatusZero(code, lines) ==
    /\ out' = out \o lines
    /\ exitCode' = 0
    /\ pc' = "exited"
Exit(code, lines) ==
    /\ out' = out \o lines
    /\ exitCode' = code
    /\ pc' = "exited"

ParseFlags ==
    /\ pc = "parseFlags"
    /\ cfg' = parseFlags(args, env)
    /\ IF MissingCredentials(cfg')
       THEN Exit(1, <<Line("usage", "")>>)
       ELSE /\ pc' = "connect"
            /\ UNCHANGED <<out, exitCode>>
    /\ UNCHANGED <<args, env, inv, session, dc, clusters, idx, infraInfo,
                   clusterInfo, datastoreFolders, storagePods, clusterMo,
                   datastores, docs, passes>>

----------------------------------------------------------------------------
(* main: connection and datacenter.                                        *)

\* connectToVSphere: the URL parses, the client is created and the login
\* succeeds (ok), or one of them fails
Connect ==
    /\ pc = "connect"
    /\ \E ok \in BOOLEAN :
          IF ok
          THEN /\ session' = "open"
               /\ pc' = "resolveDatacenter"
               /\ UNCHANGED <<out, exitCode>>
          ELSE /\ Exit(1, <<Line("errConnect", "")>>)
               /\ UNCHANGED session
    /\ UNCHANGED <<args, env, inv, cfg, dc, clusters, idx, infraInfo,
                   clusterInfo, datastoreFolders, storagePods, clusterMo,
                   datastores, docs, passes>>

\* finder.Datacenter(name) finds the datacenter of that name;
\* finder.DefaultDatacenter finds the datacenter when there is exactly one
FindDatacenter(name) ==
    IF name # ""
    THEN IF name \in Range(inv.datacenters) THEN <<name>> ELSE <<>>
    ELSE IF Len(inv.datacenters) = 1 THEN inv.datacenters ELSE <<>>

\* the lines written for the datacenters DatacenterList returned
AvailableDatacentersNone(dcs) ==
    <<Line("availableDatacenters", "")>> \o <<Line("pleaseSpecify", "")>>
AvailableDatacenters(dcs) ==
    <<Line("availableDatacenters", "")>>
    \o [i \in 1..Len(dcs) |-> Line("datacenterName", dcs[i])]
    \o <<Line("pleaseSpecify", "")>>

UsingDatacenter(name) ==
    IF ~cfg.OutputJSON THEN <<Line("usingDatacenter", name)>> ELSE <<>>

ResolveDatacenter ==
    /\ pc = "resolveDatacenter"
    /\ \E sdkOk \in BOOLEAN, listOk \in BOOLEAN :
          LET found == IF sdkOk THEN FindDatacenter(cfg.Datacenter) ELSE <<>>
          IN  IF found # <<>>
              THEN /\ dc' = found[1]
                   /\ out' = out \o UsingDatacenter(found[1])
                   /\ pc' = "listClusters"
                   /\ UNCHANGED exitCode
              ELSE /\ UNCHANGED dc
                   /\ IF ~listOk
                      THEN Exit(1, <<Line("error", "")>>)
                      ELSE IF Len(inv.datacenters) = 0
                           THEN Exit(1, <<Line("noDatacenters", "")>>)
                           ELSE Exit(1, AvailableDatacenters(inv.datacenters))
    /\ UNCHANGED <<args, env, inv, cfg, session, clusters, idx, infraInfo,
                   clusterInfo, datastoreFolders, storagePods, clusterMo,
                   datastores, docs, passes>>

NoInfra == [Datacenter |-> "", Clusters |-> <<>>]
\* the zero value of ClusterInfo: both slices are nil.  nilSlices names the
\* slices that are nil, which json.Marshal writes as null and not as []
NoCluster == [Name |-> "", DatastoreClusters |-> <<>>, StandaloneDatastores |-> <<>>,
              nilSlices |-> {"DatastoreClusters", "StandaloneDatastores"}]

\* finder.ClusterComputeResourceList and what follows it up to the loop
ListClusters ==
    /\ pc = "listClusters"
    /\ \E ok \in BOOLEAN :
          IF ~ok
          THEN /\ Exit(1, <<Line("errClusters", "")>>)
               /\ UNCHANGED <<clusters, infraInfo>>
          ELSE /\ clusters' = inv.clusters
               /\ IF Len(inv.clusters) = 0
                  THEN /\ Exit(0, <<Line("noClusters", "")>>)
                       /\ UNCHANGED infraInfo
                  ELSE /\ infraInfo' = IF cfg.OutputJSON
                                       THEN [Datacenter |-> dc, Clusters |-> <<>>]
                                       ELSE infraInfo
                       /\ pc' = "cluster"
                       /\ UNCHANGED <<out, exitCode>>
    /\ UNCHANGED <<args, env, inv, cfg, session, dc, idx, clusterInfo,
                   datastoreFolders, storagePods, clusterMo, datastores,
                   docs, passes>>

----------------------------------------------------------------------------
(* Capacity and free space.                                                *)

\* 1024 * 1024 * 1024
GiB == 1024 * 1024 * 1024
HalfWord == 2^15

\* float64(bytes) / (1024 * 1024 * 1024): the division by a power of two is
\* exact, so the value is whole + frac / GiB
ToGBDecimal(bytes) ==
    [whole |-> bytes \div 10^9, frac |-> ((bytes % 10^9) \div 1000) * 1073]
ToGB(bytes) == [whole |-> bytes \div GiB, frac |-> bytes % GiB]

\* fmt's %.2f of a GB value, in hundredths: the nearest hundredth, the even
\* one on a tie.  100 * frac is computed in two halves of 15 bits to stay
\* within the integers of the checker.
Hundredths(gb) ==
    LET t   == 100 * (gb.frac % HalfWord)
        s   == 100 * (gb.frac \div HalfWord) + (t \div HalfWord)
        q   == s \div HalfWord
        rem == (s % HalfWord) * HalfWord + (t % HalfWord)
        up  == rem > GiB \div 2 \/ (rem = GiB \div 2 /\ q % 2 = 1)
    IN  100 * gb.whole + q + (IF up THEN 1 ELSE 0)

----------------------------------------------------------------------------
(* The classification of one cluster's datastores (main, lines 214-314).   *)

\* the mo.Datastore value pc.Retrieve returns for reference r
Datastore(r) == [Self |-> r, Name |-> DsNames[r],
                 Capacity |-> DsCapacity[r], FreeSpace |-> DsFreeSpace[r]]

\* datastoreMap[ds.Reference().Value] = ds
datastoreMapUnclaimed(dss) ==
    LET lines   == SelectSeq(out, LAMBDA l : l.kind = "ds")
        groups  == Concat([c \in 1..Len(infraInfo.Clusters) |->
                              infraInfo.Clusters[c].DatastoreClusters])
        claimed == {lines[i].text : i \in 1..Len(lines)}
                   \cup UNION {{groups[g].Datastores[i].Name :
                                   i \in 1..Len(groups[g].Datastores)} :
                                g \in 1..Len(groups)}
        keep    == SelectSeq(dss, LAMBDA ds : ds.Name \notin claimed)
    IN  [r \in {keep[i].Self : i \in 1..Len(keep)} |->
            CHOOSE ds \in Range(keep) : ds.Self = r]
datastoreMap(dss) ==
    [r \in {dss[i].Self : i \in 1..Len(dss)} |->
        LET i == CHOOSE j \in 1..Len(dss) :
                    dss[j].Self = r /\ \A k \in j + 1..Len(dss) : dss[k].Self # r
        IN  dss[i]]

\* DatastoreInfo{Name, Capacity, FreeSpace} of a datastore
DatastoreInfoSwapped(ds) == [Name |-> ds.Name, Capacity |-> ToGB(ds.FreeSpace),
                             FreeSpace |-> ToGB(ds.Capacity)]
DatastoreInfo(ds) == [Name |-> ds.Name, Capacity |-> ToGB(ds.Capacity),
                      FreeSpace |-> ToGB(ds.FreeSpace)]

\* the "    - name (Capacity: x GB, Free: y GB)" line of a datastore
DatastoreLine(ds) == DsLine(ds.Name, Hundredths(ToGB(ds.Capacity)),
                            Hundredths(ToGB(ds.FreeSpace)))

\* the datastores of the map among the children of a pod, in child order
PodDatastoresFirstChild(childEntity, dsMap) ==
    IF childEntity # <<>> /\ Head(childEntity) \in DOMAIN dsMap
    THEN <<dsMap[Head(childEntity)]>> ELSE <<>>
RECURSIVE PodDatastores(_, _)
PodDatastores(childEntity, dsMap) ==
    IF childEntity = <<>> THEN <<>>
    ELSE (IF Head(childEntity) \in DOMAIN dsMap
          THEN <<dsMap[Head(childEntity)]>> ELSE <<>>)
         \o PodDatastores(Tail(childEntity), dsMap)

\* the text lines of one pod
PodLinesUnlessEmpty(pod, dsMap) ==
    LET dss == PodDatastores(pod.ChildEntity, dsMap)
    IN  IF dss = <<>> THEN <<>>
        ELSE <<Line("datastoreCluster", pod.Name)>>
             \o [i \in 1..Len(dss) |-> DatastoreLine(dss[i])]
PodLines(pod, dsMap) ==
    LET dss == PodDatastores(pod.ChildEntity, dsMap)
    IN  <<Line("datastoreCluster", pod.Name)>>
        \o [i \in 1..Len(dss) |-> DatastoreLine(dss[i])]
        \o (IF dss = <<>> THEN <<Line("noDatastoresInPod", "")>> ELSE <<>>)

\* the text lines of the datastore clusters of a cluster
GroupLines(pods, dsMap) ==
    IF Len(pods) = 0
    THEN <<Line("noDatastoreClusters", "")>>
    ELSE Concat([i \in 1..Len(pods) |-> PodLines(pods[i], dsMap)])

\* DatastoreClusterInfo of one pod
DatastoreClusterInfoReversed(pod, dsMap) ==
    LET dss == Reverse(PodDatastores(pod.ChildEntity, dsMap))
    IN  [Name |-> pod.Name,
         Datastores |-> [i \in 1..Len(dss) |-> DatastoreInfo(dss[i])]]
DatastoreClusterInfo(pod, dsMap) ==
    LET dss == PodDatastores(pod.ChildEntity, dsMap)
    IN  [Name |-> pod.Name,
         Datastores |-> [i \in 1..Len(dss) |-> DatastoreInfo(dss[i])]]

\* clusterInfo.DatastoreClusters: the pods with at least one datastore
KeepPodAlways(info) == TRUE
KeepPod(info) == Len(info.Datastores) > 0

DatastoreClusters(pods, dsMap) ==
    SelectSeq([i \in 1..Len(pods) |-> DatastoreClusterInfo(pods[i], dsMap)],
              KeepPod)

\* belongsToStoragePod: some pod has the datastore among its children
BelongsToFirstPod(ds, pods) ==
    Len(pods) > 0 /\ \E j \in 1..Len(pods[1].ChildEntity) :
                        pods[1].ChildEntity[j] = ds.Self
BelongsToStoragePod(ds, pods) ==
    \E i \in 1..Len(pods) : \E j \in 1..Len(pods[i].ChildEntity) :
        pods[i].ChildEntity[j] = ds.Self

\* the standalone datastores, in the order of the retrieved datastores
StandaloneSortedByName(dss, pods) ==
    LET alone  == SelectSeq(dss, LAMBDA ds : ~BelongsToStoragePod(ds, pods))
        sorted == <<"A", "B", "C", "D">>
    IN  Concat([n \in 1..Len(sorted) |->
                   SelectSeq(alone, LAMBDA ds : ds.Name = sorted[n])])
Standalone(dss, pods) ==
    SelectSeq(dss, LAMBDA ds : ~BelongsToStoragePod(ds, pods))

StandaloneLinesNoSentinel(dss, pods) ==
    LET alone == Standalone(dss, pods)
    IN  <<Line("standaloneHeader", "")>>
        \o [i \in 1..Len(alone) |-> DatastoreLine(alone[i])]
StandaloneLines(dss, pods) ==
    LET alone == Standalone(dss, pods)
    IN  <<Line("standaloneHeader", "")>>
        \o [i \in 1..Len(alone) |-> DatastoreLine(alone[i])]
        \o (IF alone = <<>> THEN <<Line("noStandalone", "")>> ELSE <<>>)

StandaloneDatastores(dss, pods) ==
    LET alone == Standalone(dss, pods)
    IN  [i \in 1..Len(alone) |-> DatastoreInfo(alone[i])]

----------------------------------------------------------------------------
(* main: the loop over the clusters (lines 133-315).                       *)

\* a line written in text mode only
TextOnlyAlways(lines) == lines
TextOnly(lines) == IF ~cfg.OutputJSON THEN lines ELSE <<>>

\* the end of one loop iteration, by `continue` or at the end of the body:
\* the next cluster, or the code after the loop
NextIterationOrReturn(result) ==
    /\ idx' = idx + 1
    /\ passes' = Append(passes, result)
    /\ pc' = IF result # "resolved" THEN "emit"
             ELSE IF idx < Len(clusters) THEN "cluster" ELSE "emit"
NextIteration(result) ==
    /\ idx' = idx + 1
    /\ passes' = Append(passes, result)
    /\ pc' = IF idx < Len(clusters) THEN "cluster" ELSE "emit"

\* lines 140-141: "\nCluster: name\n" and the rule under it
ClusterHeaderNameWide(name) ==
    <<Line("blank", ""), Line("cluster", name),
      Line("rule", Repeat("-", Len(name)))>>
ClusterHeader(name) ==
    <<Line("blank", ""), Line("cluster", name),
      Line("rule", Repeat("-", Len(name) + 9))>>

\* lines 136-138: the name, and two empty slices made with make
NewClusterInfoNoMake(name) == [NoCluster EXCEPT !.Name = name]
NewClusterInfoCarried(name) == [clusterInfo EXCEPT !.Name = name]
NewClusterInfo(name) ==
    [Name |-> name, DatastoreClusters |-> <<>>, StandaloneDatastores |-> <<>>,
     nilSlices |-> {}]

\* append(slice, elems...): a slice that was nil is not nil afterwards
AppendTo(info, field, elems) ==
    [info EXCEPT ![field] = @ \o elems,
                 !.nilSlices = IF elems = <<>> THEN @ ELSE @ \ {field}]

\* lines 133-149: the ClusterInfo or the header of the cluster
BeginCluster ==
    /\ pc = "cluster"
    /\ clusterInfo' = IF cfg.OutputJSON
                      THEN NewClusterInfo(clusters[idx])
                      ELSE NoCluster
    /\ out' = out \o TextOnly(ClusterHeader(clusters[idx]))
    /\ storagePods' = <<>>
    /\ datastoreFolders' = <<>>
    /\ clusterMo' = <<>>
    /\ datastores' = <<>>
    /\ pc' = "folderList"
    /\ UNCHANGED <<args, env, inv, cfg, session, dc, clusters, idx, infraInfo,
                   docs, exitCode, passes>>

\* a child of a datastore folder: the index of a pod of the inventory, or
\* NotAPod for a child that is no StoragePod (a datastore, a folder)
NotAPod == 0

\* what one FolderList call can return: an error, or the datastore folders,
\* each with its children.  The pods of the inventory lie in one folder, or
\* the first pod lies in one folder and the others in a second.
FolderError == [err |-> TRUE, folders |-> <<>>]
Folders(fs) == [err |-> FALSE, folders |-> fs]

FolderListResults ==
    LET n == Len(inv.pods)
        children(a, b) == <<NotAPod>> \o [i \in 1..(b - a + 1) |-> a + i - 1]
    IN  {FolderError, Folders(<<>>), Folders(<<children(1, n)>>)}
        \cup (IF n > 1 THEN {Folders(<<children(1, 1), children(2, n)>>)} ELSE {})

\* lines 152-166: the three lookups, a later one only after an error
FolderList(r1, r2, r3) ==
    IF ~r1.err THEN r1 ELSE IF ~r2.err THEN r2 ELSE r3

DiscoverFolders ==
    /\ pc = "folderList"
    /\ \E r1 \in FolderListResults, r2 \in FolderListResults,
          r3 \in FolderListResults :
          LET r == FolderList(r1, r2, r3)
          IN  IF r.err
              THEN /\ out' = out \o TextOnly(<<Line("errFolders", "")>>)
                   /\ NextIteration("folderError")
                   /\ UNCHANGED datastoreFolders
              ELSE /\ datastoreFolders' = r.folders
                   /\ pc' = "children"
                   /\ UNCHANGED <<out, idx, passes>>
    /\ UNCHANGED <<args, env, inv, cfg, session, dc, clusters, infraInfo,
                   clusterInfo, storagePods, clusterMo, datastores, docs,
                   exitCode>>

\* lines 175-185: the pods among the children of one folder whose name and
\* childEntity could be retrieved
FolderPodsKeepFailed(children, podFail) ==
    LET pod(c) == IF c = NotAPod THEN <<>>
                  ELSE IF c \in podFail THEN <<[Name |-> "", ChildEntity |-> <<>>]>>
                  ELSE <<inv.pods[c]>>
    IN  Concat([i \in 1..Len(children) |-> pod(children[i])])
FolderPods(children, podFail) ==
    LET pod(c) == IF c # NotAPod /\ c \notin podFail THEN <<inv.pods[c]>> ELSE <<>>
    IN  Concat([i \in 1..Len(children) |-> pod(children[i])])

\* lines 169-186: a folder whose children cannot be read is skipped
CollectedPods(folders, folderFail, podFail) ==
    Concat([f \in 1..Len(folders) |->
              IF f \in folderFail THEN <<>> ELSE FolderPods(folders[f], podFail)])

CollectPods ==
    /\ pc = "children"
    /\ \E folderFail \in SUBSET (1..Len(datastoreFolders)),
          podFail \in SUBSET (1..Len(inv.pods)) :
          storagePods' = CollectedPods(datastoreFolders, folderFail, podFail)
    /\ pc' = "clusterDetails"
    /\ UNCHANGED <<args, env, inv, cfg, session, dc, clusters, idx, infraInfo,
                   clusterInfo, datastoreFolders, clusterMo, datastores, out,
                   docs, exitCode, passes>>

\* lines 189-203: the datastore references of the cluster
GetClusterDetails ==
    /\ pc = "clusterDetails"
    /\ \E ok \in BOOLEAN, reach \in SUBSET inv.datastores :
          IF ok
          THEN /\ clusterMo' = SetToSeq(reach)
               /\ pc' = "retrieve"
               /\ UNCHANGED <<out, idx, passes>>
          ELSE /\ out' = out \o TextOnly(<<Line("errCluster", "")>>)
               /\ NextIteration("clusterError")
               /\ UNCHANGED clusterMo
    /\ UNCHANGED <<args, env, inv, cfg, session, dc, clusters, infraInfo,
                   clusterInfo, datastoreFolders, storagePods, datastores,
                   docs, exitCode>>

\* lines 205-212: name and summary of these datastores, in the order the
\* server returns them
RetrieveDatastores ==
    /\ pc = "retrieve"
    /\ \E ok \in BOOLEAN, reversed \in BOOLEAN :
          IF ok
          THEN /\ datastores' =
                     LET dss == [i \in 1..Len(clusterMo) |-> Datastore(clusterMo[i])]
                     IN  IF reversed THEN Reverse(dss) ELSE dss
               /\ pc' = "groups"
               /\ UNCHANGED <<out, idx, passes>>
          ELSE /\ out' = out \o TextOnly(<<Line("errDatastores", "")>>)
               /\ NextIteration("datastoreError")
               /\ UNCHANGED datastores
    /\ UNCHANGED <<args, env, inv, cfg, session, dc, clusters, infraInfo,
                   clusterInfo, datastoreFolders, storagePods, clusterMo,
                   docs, exitCode>>

\* lines 214-267: the datastore clusters and their datastores
ReportGroups ==
    /\ pc = "groups"
    /\ out' = out \o TextOnly(GroupLines(storagePods, datastoreMap(datastores)))
    /\ clusterInfo' =
          IF cfg.OutputJSON
          THEN AppendTo(clusterInfo, "DatastoreClusters",
                        DatastoreClusters(storagePods, datastoreMap(datastores)))
          ELSE clusterInfo
    /\ pc' = "standalone"
    /\ UNCHANGED <<args, env, inv, cfg, session, dc, clusters, idx, infraInfo,
                   datastoreFolders, storagePods, clusterMo, datastores, docs,
                   exitCode, passes>>

\* lines 269-315: the standalone datastores; the cluster joins the document
ReportStandalone ==
    /\ pc = "standalone"
    /\ out' = out \o TextOnly(StandaloneLines(datastores, storagePods))
    /\ clusterInfo' =
          IF cfg.OutputJSON
          THEN AppendTo(clusterInfo, "StandaloneDatastores",
                        StandaloneDatastores(datastores, storagePods))
          ELSE clusterInfo
    /\ infraInfo' =
          IF cfg.OutputJSON
          THEN [infraInfo EXCEPT !.Clusters = Append(@, clusterInfo')]
          ELSE infraInfo
    /\ NextIteration("resolved")
    /\ UNCHANGED <<args, env, inv, cfg, session, dc, clusters,
                   datastoreFolders, storagePods, clusterMo, datastores, docs,
                   exitCode>>

\* lines 317-326: the JSON document, then main returns: the deferred Logout
\* runs and the process ends with status 0.  json.MarshalIndent cannot fail
\* on these values (strings and finite numbers).
EmitJSON ==
    /\ pc = "emit"
    /\ docs' = IF cfg.OutputJSON THEN Append(docs, infraInfo) ELSE docs
    /\ session' = "closed"
    /\ exitCode' = 0
    /\ pc' = "exited"
    /\ UNCHANGED <<args, env, inv, cfg, dc, clusters, idx, infraInfo,
                   clusterInfo, datastoreFolders, storagePods, clusterMo,
                   datastores, out, passes>>

----------------------------------------------------------------------------
(* The runs.                                                               *)

\* the member lists of a pod: references in ascending order, which may be
\* references of datastores the cluster does not reach
ChildEntities(refs) == {SetToSeq(S) : S \in SUBSET refs}

\* the datastore clusters of an inventory: at most n pods over refs
PodLists(refs, n) ==
    UNION {{[i \in 1..k |-> [Name |-> PodNames[i], ChildEntity |-> ce[i]]] :
               ce \in [1..k -> ChildEntities(refs)]} : k \in 0..n}

Prefixes(s) == {SubSeq(s, 1, n) : n \in 0..Len(s)}

FlagValues(S) == {Absent} \cup {Given(v) : v \in S}

NoEnv == [VSPHERE_URL |-> "", VSPHERE_USERNAME |-> "", VSPHERE_PASSWORD |-> "",
          VSPHERE_DATACENTER |-> ""]

InitRest ==
    /\ pc = "parseFlags"
    /\ cfg = NoCfg
    /\ session = "none"
    /\ dc = ""
    /\ clusters = <<>>
    /\ idx = 1
    /\ infraInfo = NoInfra
    /\ clusterInfo = NoCluster
    /\ datastoreFolders = <<>>
    /\ storagePods = <<>>
    /\ clusterMo = <<>>
    /\ datastores = <<>>
    /\ out = <<>>
    /\ docs = <<>>
    /\ exitCode = Running
    /\ passes = <<>>

\* any command line and environment, over an inventory without clusters
InitFlags ==
    /\ args \in [url : FlagValues({"", "https://vc"}),
                 username : FlagValues({"", "admin"}),
                 password : FlagValues({"", "secret"}),
                 datacenter : FlagValues({"DC01"}),
                 o : BOOLEAN]
    /\ env \in [VSPHERE_URL : {"", "https://env"},
                VSPHERE_USERNAME : {"", "envuser"},
                VSPHERE_PASSWORD : {"", "envpass"},
                VSPHERE_DATACENTER : {"", "DC02"}]
    /\ inv \in [datacenters : Prefixes(DatacenterNames),
                clusters : {<<>>},
                datastores : {{}},
                pods : {<<>>}]

\* the inventory of the end-to-end scenario: one cluster, the datastores A,
\* B, C and D, StoragePod01 with A and B, StoragePod02 with C
ScenarioInventory ==
    [datacenters |-> <<"DC01">>,
     clusters |-> <<"Cluster01">>,
     datastores |-> {1, 2, 3, 4},
     pods |-> <<[Name |-> "StoragePod01", ChildEntity |-> <<2, 1>>],
                [Name |-> "StoragePod02", ChildEntity |-> <<4>>]>>]

\* the inventories of one datacenter DC01: with at most one cluster, any
\* datastore clusters within the bounds; with two clusters, at most two
\* datastore clusters over two datastores
Inventories ==
    [datacenters : {<<"DC01">>},
     clusters : {<<>>, <<ClusterNames[1]>>},
     datastores : {Refs},
     pods : PodLists(Refs, MaxPods)]
    \cup
    [datacenters : {<<"DC01">>},
     clusters : {ClusterNames},
     datastores : {{1, 2}},
     pods : PodLists({1, 2}, 2)]
    \cup {ScenarioInventory}

\* any of these inventories, for a complete command line
InitInventory ==
    /\ args \in [url : {Given("https://vc")},
                 username : {Absent},
                 password : {Given("secret")},
                 datacenter : {Absent},
                 o : BOOLEAN]
    /\ env = [NoEnv EXCEPT !.VSPHERE_USERNAME = "envuser"]
    /\ inv \in Inventories

Init == InitRest /\ (InitFlags \/ InitInventory)

Next ==
    \/ ParseFlags
    \/ Connect
    \/ ResolveDatacenter
    \/ ListClusters
    \/ BeginCluster
    \/ DiscoverFolders
    \/ CollectPods
    \/ GetClusterDetails
    \/ RetrieveDatastores
    \/ ReportGroups
    \/ ReportStandalone
    \/ EmitJSON

Spec == Init /\ [][Next]_vars

----------------------------------------------------------------------------
(* Reading the output back.                                                *)

Last(s) == s[Len(s)]

Kinds(lines) == {lines[i].kind : i \in 1..Len(lines)}

\* the indices of the lines of a kind
Where(lines, kind) == {i \in 1..Len(lines) : lines[i].kind = kind}

Max(S) == CHOOSE x \in S : \A y \in S : y <= x

\* the lines from the last line of a kind on (none without such a line)
FromLast(lines, kind) ==
    IF Where(lines, kind) = {} THEN <<>>
    ELSE SubSeq(lines, Max(Where(lines, kind)), Len(lines))

\* the lines before the last line of a kind (all without such a line)
BeforeLast(lines, kind) ==
    IF Where(lines, kind) = {} THEN lines
    ELSE SubSeq(lines, 1, Max(Where(lines, kind)) - 1)

\* the names on the datastore lines among lines
DatastoreNames(lines) ==
    LET ds == SelectSeq(lines, LAMBDA l : l.kind = "ds")
    IN  [i \in 1..Len(ds) |-> ds[i].text]

Names(infos) == [i \in 1..Len(infos) |-> infos[i].Name]

\* the last loop iteration has ended, with this result, and no other has
\* begun: storagePods, clusterMo and datastores are still those of it
JustEnded(result) ==
    /\ pc \in {"cluster", "emit", "exited"}
    /\ passes # <<>>
    /\ Last(passes) = result

JustResolved == JustEnded("resolved")

Degraded == {"folderError", "clusterError", "datastoreError"}

\* the text lines of the cluster of the last iteration
LastClusterLines == FromLast(out, "cluster")

\* the report of the cluster of the last iteration: the names of the
\* datastores listed under its datastore clusters, group after group, and of
\* those listed as standalone
ListedInGroups ==
    IF cfg.OutputJSON
    THEN LET groups == Last(infraInfo.Clusters).DatastoreClusters
         IN  Concat([i \in 1..Len(groups) |-> Names(groups[i].Datastores)])
    ELSE DatastoreNames(BeforeLast(LastClusterLines, "standaloneHeader"))

ListedStandalone ==
    IF cfg.OutputJSON
    THEN Names(Last(infraInfo.Clusters).StandaloneDatastores)
    ELSE DatastoreNames(FromLast(LastClusterLines, "standaloneHeader"))

\* the datastores the cluster of the last iteration reaches, by name
ReachableNames == {DsNames[clusterMo[i]] : i \in 1..Len(clusterMo)}

\* how often x occurs in s
Count(s, x) == Cardinality({i \in 1..Len(s) : s[i] = x})

\* the pods of the last iteration with the reference r among their children
PodsWith(r) == {i \in 1..Len(storagePods) : r \in Range(storagePods[i].ChildEntity)}

----------------------------------------------------------------------------
(* The classification of the datastores of a cluster.                      *)

\* C1: for a cluster whose folder discovery, cluster details and datastore
\* details all succeeded, the datastores listed under the datastore clusters
\* together with those listed as standalone are exactly the datastores the
\* cluster reaches: none is omitted, none the cluster does not reach is listed.
C1_ListedAreTheReachable ==
    JustResolved =>
        Range(ListedInGroups) \cup Range(ListedStandalone) = ReachableNames

\* a resolved cluster that reaches one of the two datastores, where a group
\* has both as members and another group has neither
C1_Witness ==
    /\ JustResolved
    /\ Len(clusterMo) = 1
    /\ Len(storagePods) = 2
    /\ \E i \in 1..2 : Len(storagePods[i].ChildEntity) = 2
    /\ \E i \in 1..2 : Len(storagePods[i].ChildEntity) = 0
    /\ ListedInGroups # <<>>

\* C2: for a resolved cluster every reachable datastore is listed exactly
\* once; one that is a member of two datastore clusters is listed under the
\* earliest of them only and not as standalone.
C2_ListedExactlyOnce ==
    JustResolved =>
        \A i \in 1..Len(clusterMo) :
            Count(ListedInGroups \o ListedStandalone, DsNames[clusterMo[i]]) = 1

\* C3: for a resolved cluster the standalone list is exactly the reachable
\* datastores not listed under any datastore cluster; no datastore is listed
\* both under a datastore cluster and as standalone.
C3_StandaloneIsTheRest ==
    JustResolved =>
        /\ Range(ListedStandalone) = ReachableNames \ Range(ListedInGroups)
        /\ Range(ListedStandalone) \cap Range(ListedInGroups) = {}

\* a resolved cluster with a standalone datastore and, under the second of
\* two groups only, another datastore
C3_Witness ==
    /\ JustResolved
    /\ ListedStandalone # <<>>
    /\ Len(storagePods) = 2
    /\ \E i \in 1..Len(clusterMo) : PodsWith(clusterMo[i]) = {2}

\* C4: in JSON mode a datastore cluster none of whose members the cluster
\* reaches is not in the cluster's datastore_clusters, and every group that is
\* there has at least one datastore.
C4_NoEmptyGroup ==
    cfg.OutputJSON =>
        /\ \A c \in 1..Len(infraInfo.Clusters) :
              \A g \in 1..Len(infraInfo.Clusters[c].DatastoreClusters) :
                  Len(infraInfo.Clusters[c].DatastoreClusters[g].Datastores) > 0
        /\ \A d \in 1..Len(docs) : \A c \in 1..Len(docs[d].Clusters) :
              \A g \in 1..Len(docs[d].Clusters[c].DatastoreClusters) :
                  Len(docs[d].Clusters[c].DatastoreClusters[g].Datastores) > 0
        /\ JustResolved =>
              \A i \in 1..Len(storagePods) :
                  Range(storagePods[i].ChildEntity) \cap Range(clusterMo) = {}
                  => storagePods[i].Name \notin
                        Range(Names(Last(infraInfo.Clusters).DatastoreClusters))

\* the document holds a cluster with one group, and another group with
\* children was found of which the cluster reaches none
C4_Witness ==
    /\ cfg.OutputJSON
    /\ JustResolved
    /\ Len(docs) = 1
    /\ Len(Last(docs[1].Clusters).DatastoreClusters) = 1
    /\ \E i \in 1..Len(storagePods) :
          /\ storagePods[i].ChildEntity # <<>>
          /\ Range(storagePods[i].ChildEntity) \cap Range(clusterMo) = {}

----------------------------------------------------------------------------
(* The run as a whole.                                                     *)

\* the positions of main() inside the loop over the clusters
InLoop == {"cluster", "folderList", "children", "clusterDetails", "retrieve",
           "groups", "standalone"}

\* C5: a failure for one cluster (datastore folders, cluster details or
\* datastore details) never ends the run: the loop goes on to every later
\* cluster and the run ends with status 0, also when every cluster fails.
C5_FailureNeverAborts ==
    /\ pc \in InLoop \cup {"emit"} =>
          /\ exitCode = Running
          /\ Len(passes) = idx - 1
          /\ idx <= Len(clusters) + 1
    /\ pc \in InLoop => idx <= Len(clusters)
    /\ (pc \in {"emit", "exited"} /\ clusters # <<>>) =>
          Len(passes) = Len(clusters)
    /\ (pc = "exited" /\ clusters # <<>>) => exitCode = 0

\* a run over two clusters that both failed, ended with status 0
C5_Witness ==
    /\ pc = "exited"
    /\ exitCode = 0
    /\ Len(passes) = 2
    /\ passes[1] \in Degraded
    /\ passes[2] \in Degraded
    /\ passes[1] # passes[2]

\* C6: in JSON mode a degraded cluster is in the clusters of the document,
\* with its name and with empty datastore_clusters and standalone_datastores.
C6_DegradedClusterPresent ==
    (cfg.OutputJSON /\ Len(docs) = 1) =>
        /\ Names(docs[1].Clusters) = clusters
        /\ \A i \in 1..Len(clusters) :
              passes[i] \in Degraded =>
                  /\ docs[1].Clusters[i].DatastoreClusters = <<>>
                  /\ docs[1].Clusters[i].StandaloneDatastores = <<>>

\* how a run that has ended failed, if it did
MissingCredentialsExit == pc = "exited" /\ session = "none" /\ "usage" \in Kinds(out)
ConnectionFailure == pc = "exited" /\ session = "none" /\ "errConnect" \in Kinds(out)
Unresolved == pc = "exited" /\ session = "open" /\ dc = ""
ClusterListFailure == pc = "exited" /\ "errClusters" \in Kinds(out)
NoClustersExit == pc = "exited" /\ "noClusters" \in Kinds(out)
Completed == pc = "exited" /\ session = "closed"

\* C7: the exit status is 0 exactly on success, the end of a datacenter
\* without clusters included, and not 0 on a connection failure, on missing
\* credentials and on an unresolved datacenter.
C7_ExitStatus ==
    /\ pc # "exited" => exitCode = Running
    /\ pc = "exited" =>
          /\ exitCode \in {0, 1}
          /\ exitCode = 0 <=> (Completed \/ NoClustersExit)
          /\ (MissingCredentialsExit \/ ConnectionFailure \/ Unresolved) =>
                exitCode # 0

\* the run ended because the datacenter has no clusters, with status 0
C7_Witness ==
    /\ NoClustersExit
    /\ exitCode = 0
    /\ dc # ""
    /\ ~Completed

\* the kinds of line that make up the report in text mode
TextKinds == {"usingDatacenter", "blank", "cluster", "rule", "datastoreCluster",
              "ds", "noDatastoreClusters", "noDatastoresInPod",
              "standaloneHeader", "noStandalone", "errFolders", "errCluster",
              "errDatastores"}

\* the datacenter names written one per line
ListedDatacenters ==
    LET l == SelectSeq(out, LAMBDA x : x.kind = "datacenterName")
    IN  [i \in 1..Len(l) |-> l[i].text]

\* no cluster was enumerated and nothing of a report was written
NoReport ==
    /\ clusters = <<>>
    /\ passes = <<>>
    /\ docs = <<>>
    /\ Kinds(out) \cap TextKinds = {}

\* without a datacenter name the default datacenter is the one looked up
DefaultAttempted ==
    (cfg.Datacenter = "" /\ dc # "") => inv.datacenters = <<dc>>

FromFlagElseEnv(value, f, e) ==
    /\ f.given => value = f.value
    /\ ~f.given => value = e

\* C9: URL, username and password each come from the flag when it is given
\* and from the environment variable otherwise; if one of them is empty,
\* usage is printed and the run ends with a status other than 0 before any
\* connection is attempted.
C9_FlagsThenEnvironment ==
    pc # "parseFlags" =>
        /\ FromFlagElseEnv(cfg.URL, args.url, env.VSPHERE_URL)
        /\ FromFlagElseEnv(cfg.Username, args.username, env.VSPHERE_USERNAME)
        /\ FromFlagElseEnv(cfg.Password, args.password, env.VSPHERE_PASSWORD)
        /\ (cfg.URL = "" \/ cfg.Username = "" \/ cfg.Password = "") =>
              /\ pc = "exited"
              /\ exitCode # 0 /\ exitCode # Running
              /\ Kinds(out) = {"usage"}
              /\ session = "none"

\* an empty -url on the command line replaces a set VSPHERE_URL, the user
\* name comes from the environment and the password from its flag: usage is
\* printed and the run ends with status 1, not logged in
C9_Witness ==
    /\ pc = "exited"
    /\ args.url = Given("") /\ env.VSPHERE_URL # ""
    /\ ~args.username.given /\ cfg.Username = env.VSPHERE_USERNAME
    /\ cfg.Username # ""
    /\ args.password.given /\ cfg.Password = args.password.value
    /\ cfg.Password # ""
    /\ Kinds(out) = {"usage"}
    /\ exitCode = 1

\* C10: the mode is fixed for the run and the modes do not mix: in JSON mode
\* no text-mode line is ever written and, given at least one cluster, exactly
\* one document is written, after the last cluster was processed; in text
\* mode no document is written.
C10_ModesNeverMix ==
    /\ pc # "parseFlags" => cfg.OutputJSON = args.o
    /\ cfg.OutputJSON =>
          /\ Kinds(out) \cap TextKinds = {}
          /\ Len(docs) <= 1
          /\ docs # <<>> => (pc = "exited" /\ Len(passes) = Len(clusters))
          /\ (pc = "exited" /\ clusters # <<>>) => Len(docs) = 1
    /\ ~cfg.OutputJSON => docs = <<>>

\* a JSON run over two clusters, one of them degraded, has written its
\* document and nothing else
C10_Witness ==
    /\ cfg.OutputJSON
    /\ Len(clusters) = 2
    /\ Len(docs) = 1
    /\ out = <<>>
    /\ \E i \in 1..2 : passes[i] \in Degraded
    /\ \E i \in 1..2 : passes[i] = "resolved"

----------------------------------------------------------------------------
(* The text of a resolved cluster.                                         *)

KindsOf(lines) == [i \in 1..Len(lines) |-> lines[i].kind]

\* the lines of the cluster of the last iteration, from its blank line on
LastClusterBlock ==
    IF Where(out, "cluster") = {} THEN <<>>
    ELSE SubSeq(out, Max(Where(out, "cluster")) - 1, Len(out))

\* the number of datastore lines lines begins with
RECURSIVE LeadingDs(_)
LeadingDs(lines) ==
    IF lines # <<>> /\ Head(lines).kind = "ds"
    THEN 1 + LeadingDs(Tail(lines)) ELSE 0

\* lines are, for each name in turn, the 'Datastore Cluster: name' line and
\* then either datastore lines or the one 'No datastores from this cluster'
\* line
RECURSIVE GroupsInOrder(_, _)
GroupsInOrder(lines, names) ==
    IF names = <<>> THEN lines = <<>>
    ELSE /\ Len(lines) >= 2
         /\ lines[1].kind = "datastoreCluster"
         /\ lines[1].text = Head(names)
         /\ LET n == LeadingDs(Tail(lines))
            IN  IF n = 0
                THEN /\ lines[2].kind = "noDatastoresInPod"
                     /\ GroupsInOrder(SubSeq(lines, 3, Len(lines)), Tail(names))
                ELSE GroupsInOrder(SubSeq(lines, n + 2, Len(lines)), Tail(names))

----------------------------------------------------------------------------
(* The end-to-end scenario.                                                *)

\* a GB value written out: whole GB and 2^-30 GB
GB(whole, frac) == [whole |-> whole, frac |-> frac]

\* the document expected for the scenario: A (1.5 GB, 1 GB free) and B (1 GB,
\* 0.5 GB free) under StoragePod01, C (empty) under StoragePod02, D alone
ScenarioDocument ==
    [Datacenter |-> "DC01",
     Clusters |-> <<
       [Name |-> "Cluster01",
        DatastoreClusters |-> <<
          [Name |-> "StoragePod01",
           Datastores |-> <<
             [Name |-> "A", Capacity |-> GB(1, 536870912), FreeSpace |-> GB(1, 0)],
             [Name |-> "B", Capacity |-> GB(1, 0), FreeSpace |-> GB(0, 536870912)]>>],
          [Name |-> "StoragePod02",
           Datastores |-> <<
             [Name |-> "C", Capacity |-> GB(0, 0), FreeSpace |-> GB(0, 0)]>>]>>,
        StandaloneDatastores |-> <<
             [Name |-> "D", Capacity |-> GB(1, 1073741823),
              FreeSpace |-> GB(0, 5368709)]>>,
        nilSlices |-> {}]>>]

\* the scenario ran in JSON mode: both groups were found and the cluster
\* reaches the four datastores
ScenarioRan ==
    /\ inv = ScenarioInventory
    /\ cfg.OutputJSON
    /\ pc = "exited"
    /\ passes = <<"resolved">>
    /\ storagePods = inv.pods
    /\ Range(clusterMo) = inv.datastores

\* C12: in the scenario the JSON document lists A and B under StoragePod01, C
\* under StoragePod02 and D alone under standalone_datastores, each with its
\* capacity and free space.
C12_Scenario == ScenarioRan => docs = <<ScenarioDocument>>

\* the scenario ran, the datastore details having come in descending order
C12_Witness ==
    /\ ScenarioRan
    /\ Len(datastores) = 4
    /\ datastores[1].Name = "C"

----------------------------------------------------------------------------
(* The empty cases.                                                        *)

\* the cluster of the last iteration as it stands in the JSON document, or
\* will stand in it
LastClusterInfo == Last(infraInfo.Clusters)

\* a list of a ClusterInfo is written as [], not left out and not null
EmptyList(info, field) ==
    /\ field \in DOMAIN info
    /\ info[field] = <<>>
    /\ field \notin info.nilSlices

\* C13: when no datastore cluster was discovered for a resolved cluster, text
\* mode writes the 'No datastore clusters found for this cluster' line once
\* and no 'Datastore Cluster:' line for it, and JSON mode gives the cluster an
\* empty datastore_clusters list, neither absent nor null.
C13_NoDatastoreClusters ==
    (JustResolved /\ storagePods = <<>>) =>
        IF cfg.OutputJSON
        THEN /\ EmptyList(LastClusterInfo, "DatastoreClusters")
             /\ docs # <<>> => EmptyList(Last(docs[1].Clusters), "DatastoreClusters")
        ELSE /\ Cardinality(Where(LastClusterLines, "noDatastoreClusters")) = 1
             /\ "datastoreCluster" \notin Kinds(LastClusterLines)
             /\ LastClusterLines[3].kind = "noDatastoreClusters"

\* the document is written, and its last cluster reaches a datastore but no
\* datastore cluster was discovered for it, though the inventory has one
C13_Witness ==
    /\ cfg.OutputJSON
    /\ JustResolved
    /\ storagePods = <<>>
    /\ inv.pods # <<>>
    /\ clusterMo # <<>>
    /\ Len(docs) = 1

\* every datastore the cluster of the last iteration reaches is a member of a
\* discovered datastore cluster (so also when it reaches none)
AllReachablePooled == \A i \in 1..Len(clusterMo) : PodsWith(clusterMo[i]) # {}

\* C14: when a resolved cluster has no standalone datastore, text mode writes
\* 'No standalone datastores found' right after 'Standalone Datastores:', and
\* JSON mode gives the cluster an empty standalone_datastores list, neither
\* absent nor null.
C14_NoStandalone ==
    (JustResolved /\ AllReachablePooled) =>
        IF cfg.OutputJSON
        THEN /\ EmptyList(LastClusterInfo, "StandaloneDatastores")
             /\ docs # <<>> => EmptyList(Last(docs[1].Clusters), "StandaloneDatastores")
        ELSE KindsOf(FromLast(LastClusterLines, "standaloneHeader"))
                = <<"standaloneHeader", "noStandalone">>

\* text mode: the cluster reaches two datastores, each a member of another
\* datastore cluster
C14_Witness ==
    /\ ~cfg.OutputJSON
    /\ JustResolved
    /\ AllReachablePooled
    /\ Len(clusterMo) = 2
    /\ PodsWith(clusterMo[1]) # PodsWith(clusterMo[2])
    /\ "noStandalone" \in Kinds(LastClusterLines)

\* the same with a cluster that reaches no datastore
C14_ReachesNone ==
    /\ JustResolved
    /\ clusterMo = <<>>
    /\ inv.pods # <<>>

\* the entry of a cluster as a function of its name and of the answers of its
\* own iteration: the pods collected and the datastores retrieved
ClusterDocument(name, pods, dss) ==
    [Name |-> name,
     DatastoreClusters |-> DatastoreClusters(pods, datastoreMap(dss)),
     StandaloneDatastores |-> StandaloneDatastores(dss, pods),
     nilSlices |-> {}]

IsPrefix(s, t) == Len(s) <= Len(t) /\ SubSeq(t, 1, Len(s)) = s

----------------------------------------------------------------------------
(* The sizes.                                                              *)

\* the bytes a table (DsCapacity, DsFreeSpace) has for the datastore of a name
BytesOf(name, table) == table[CHOOSE r \in DOMAIN DsNames : DsNames[r] = name]

\* every DatastoreInfo of a cluster entry, grouped or standalone
InfosOf(entry) ==
    Concat([i \in 1..Len(entry.DatastoreClusters) |->
               entry.DatastoreClusters[i].Datastores])
    \o entry.StandaloneDatastores

\* a GB value times 1024^3 is this number of bytes, exactly
IsBinaryGB(gb, bytes) ==
    /\ gb.frac \in 0..(2^30 - 1)
    /\ gb.whole * 2^30 + gb.frac = bytes

\* C16: sizes are bytes divided by 1024^3.  In JSON mode every capacity and
\* free space, under a group or standalone, times 1024^3 is the byte count;
\* in text mode a size of 1,073,741,824 bytes is written as 1.00 and one of
\* half of that as 0.50, under a group or standalone.
C16_BinaryGB ==
    /\ \A c \in 1..Len(infraInfo.Clusters) :
          LET infos == InfosOf(infraInfo.Clusters[c])
          IN  \A i \in 1..Len(infos) :
                 /\ IsBinaryGB(infos[i].Capacity, BytesOf(infos[i].Name, DsCapacity))
                 /\ IsBinaryGB(infos[i].FreeSpace, BytesOf(infos[i].Name, DsFreeSpace))
    /\ \A i \in 1..Len(out) :
          out[i].kind = "ds" =>
             /\ BytesOf(out[i].text, DsCapacity) = 2^30 => out[i].cap = 100
             /\ BytesOf(out[i].text, DsFreeSpace) = 2^30 => out[i].free = 100
             /\ BytesOf(out[i].text, DsFreeSpace) = 2^29 => out[i].free = 50

\* text mode: the datastore of 1,073,741,824 bytes is listed under a datastore
\* cluster for one cluster and as standalone for another, as 1.00 both times
C16_Witness ==
    \E i, k \in 2..Len(out) :
        /\ out[i - 1].kind = "datastoreCluster"
        /\ out[k - 1].kind = "standaloneHeader"
        /\ \A j \in {i, k} : /\ out[j].kind = "ds"
                             /\ BytesOf(out[j].text, DsCapacity) = 2^30
                             /\ out[j].cap = 100

\* JSON mode: the same in the document
C16_WitnessJSON ==
    /\ docs # <<>>
    /\ \E c, d \in 1..Len(docs[1].Clusters) :
          /\ \E g \in 1..Len(docs[1].Clusters[c].DatastoreClusters) :
                docs[1].Clusters[c].DatastoreClusters[g].Datastores[1].Capacity
                    = GB(1, 0)
          /\ docs[1].Clusters[d].StandaloneDatastores # <<>>
          /\ docs[1].Clusters[d].StandaloneDatastores[1].Capacity = GB(1, 0)

----------------------------------------------------------------------------
(* The datastore clusters in text mode.                                    *)

\* the positions of the 'Datastore Cluster:' lines of the last cluster, in
\* order
PodLinePositions == SetToSeq(Where(LastClusterLines, "datastoreCluster"))

\* the cluster of the last iteration reaches no member of the i-th pod
ReachesNoneOf(i) == Range(storagePods[i].ChildEntity) \cap Range(clusterMo) = {}

\* C17: in text mode every discovered datastore cluster has its 'Datastore
\* Cluster: name' line for a resolved cluster, in discovery order; when the
\* cluster reaches none of its members the line is followed by 'No datastores
\* from this cluster in this datastore cluster' and by no datastore line, and
\* otherwise by a datastore line.
C17_EveryPodAnnounced ==
    (~cfg.OutputJSON /\ JustResolved) =>
        /\ Len(PodLinePositions) = Len(storagePods)
        /\ \A i \in 1..Len(storagePods) :
              LET p == PodLinePositions[i]
              IN  /\ LastClusterLines[p].text = storagePods[i].Name
                  /\ IF ReachesNoneOf(i)
                     THEN /\ LastClusterLines[p + 1].kind = "noDatastoresInPod"
                          /\ LastClusterLines[p + 2].kind # "ds"
                     ELSE LastClusterLines[p + 1].kind = "ds"

\* two pods, of which the first has a member the cluster does not reach and
\* has none it reaches, and the second has one it reaches
C17_Witness ==
    /\ ~cfg.OutputJSON
    /\ JustResolved
    /\ Len(storagePods) = 2
    /\ storagePods[1].ChildEntity # <<>>
    /\ ReachesNoneOf(1)
    /\ ~ReachesNoneOf(2)
    /\ "noDatastoresInPod" \in Kinds(LastClusterLines)

----------------------------------------------------------------------------
(* Failures within one cluster.                                            *)

\* the pods of the inventory that lie in the datastore folders found for the
\* cluster of the last iteration
PodsInFolders ==
    {inv.pods[c] : c \in UNION {Range(datastoreFolders[f]) \ {NotAPod} :
                                    f \in 1..Len(datastoreFolders)}}

\* the pods among them that were not collected: the children of their folder
\* or their name and member list could not be read
PodsNotListed == PodsInFolders \ Range(storagePods)

ErrorKinds == {"errFolders", "errCluster", "errDatastores"}

\* C18: when folder discovery, group listing or datastore-detail retrieval
\* fails for a cluster, the cluster is reported with no datastore clusters
\* and no standalone datastores, and text mode writes an error line for it.
C18_FailureDegrades ==
    (/\ pc \in {"cluster", "emit", "exited"}
     /\ passes # <<>>
     /\ \/ Last(passes) \in {"folderError", "datastoreError"}
        \/ Last(passes) = "resolved" /\ PodsNotListed # {}) =>
        IF cfg.OutputJSON
        THEN /\ infraInfo.Clusters # <<>>
             /\ LastClusterInfo.Name = clusters[Len(passes)]
             /\ LastClusterInfo.DatastoreClusters = <<>>
             /\ LastClusterInfo.StandaloneDatastores = <<>>
        ELSE /\ Kinds(LastClusterLines) \cap ErrorKinds # {}
             /\ Kinds(LastClusterLines) \cap {"ds", "datastoreCluster"} = {}

\* the failing run: text mode, the only pod of the cluster could not be read,
\* and its member is listed as standalone without any error line
C18_SilentGroupFailure ==
    /\ ~cfg.OutputJSON
    /\ JustResolved
    /\ PodsNotListed # {}
    /\ storagePods = <<>>
    /\ Kinds(LastClusterLines) \cap ErrorKinds = {}
    /\ ListedStandalone # <<>>

\* the names on the 'Datastore Cluster:' lines of the last cluster
AnnouncedPods ==
    LET ls == SelectSeq(LastClusterLines, LAMBDA l : l.kind = "datastoreCluster")
    IN  [i \in 1..Len(ls) |-> ls[i].text]

\* the datastores the last cluster reaches that are members of pods that
\* were not listed, and of no pod that was
OnlyInUnlistedPods ==
    {r \in Range(clusterMo) :
        /\ \E p \in PodsNotListed : r \in Range(p.ChildEntity)
        /\ PodsWith(r) = {}}

\* C19: a group that cannot be read is absorbed.  The cluster is resolved
\* without an error line (JSON: it has its entry); the groups reported are
\* groups of the inventory that were read, the unread one not among them; and
\* every reachable datastore that is a member of unread groups only is
\* reported as standalone.
C19_GroupFailureAbsorbed ==
    (JustResolved /\ PodsNotListed # {}) =>
        /\ Range(storagePods) \subseteq Range(inv.pods)
        /\ IF cfg.OutputJSON
           THEN /\ LastClusterInfo.Name = clusters[Len(passes)]
                /\ Range(Names(LastClusterInfo.DatastoreClusters))
                      = {storagePods[i].Name : i \in {j \in 1..Len(storagePods) :
                                                         ~ReachesNoneOf(j)}}
           ELSE /\ Kinds(LastClusterLines) \cap ErrorKinds = {}
                /\ AnnouncedPods = Names(storagePods)
        /\ \A r \in OnlyInUnlistedPods : DsNames[r] \in Range(ListedStandalone)

\* text mode, two pods, each with a reachable member of its own: one pod is
\* read and reported, the other is not and its member is standalone
C19_Witness ==
    /\ ~cfg.OutputJSON
    /\ JustResolved
    /\ Len(storagePods) = 1
    /\ ~ReachesNoneOf(1)
    /\ OnlyInUnlistedPods # {}
    /\ AnnouncedPods = <<storagePods[1].Name>>
    /\ \A r \in OnlyInUnlistedPods : DsNames[r] \in Range(ListedStandalone)

----------------------------------------------------------------------------
(* The session.                                                            *)

\* C20: a run that logged in logs out before the process ends, on every
\* path: completion, unresolved datacenter, failure of the cluster listing,
\* no clusters.
C20_SessionTornDown ==
    (pc = "exited" /\ session # "none") => session = "closed"

\* the ends of a run that leave the session open: os.Exit after the login
C20_ExitWithoutLogout ==
    /\ pc = "exited"
    /\ session = "open"
    /\ \/ Unresolved
       \/ ClusterListFailure
       \/ NoClustersExit

----------------------------------------------------------------------------
(* The discovery of the datastore folders.                                 *)

\* a lookup result that is neither an error nor empty
Usable(r) == ~r.err /\ r.folders # <<>>

\* the first usable of three lookup results, and an error when none is
FirstUsable(r1, r2, r3) ==
    IF Usable(r1) THEN r1 ELSE IF Usable(r2) THEN r2
    ELSE IF Usable(r3) THEN r3 ELSE FolderError

\* C21: the three lookups are tried in order, a later one only when no
\* earlier one gave a result that is neither an error nor empty; the first
\* such result is the one used, and the cluster is degraded only when none of
\* the three gives one.
C21_FirstUsableLookupWins ==
    pc = "folderList" =>
        \A r1 \in FolderListResults, r2 \in FolderListResults,
           r3 \in FolderListResults :
            FolderList(r1, r2, r3) = FirstUsable(r1, r2, r3)

\* the failing run: the inventory has datastore clusters, the lookup used
\* gave no folder, and the cluster is resolved without any of them
C21_EmptyLookupUsed ==
    /\ JustResolved
    /\ inv.pods # <<>>
    /\ datastoreFolders = <<>>
    /\ clusterMo # <<>>
    /\ Kinds(LastClusterLines) \cap ErrorKinds = {}

----------------------------------------------------------------------------
(* The order of the standalone datastores.                                 *)

\* the names of the datastores in the order pc.Retrieve returned them
RetrievedNames == Names(datastores)

\* C22: in both modes the standalone datastores of a resolved cluster are
\* listed in the order in which pc.Retrieve returned the datastores: the
\* listing is the sequence of retrieved names with the grouped ones left out,
\* not sorted again.
C22_StandaloneInRetrievedOrder ==
    JustResolved =>
        ListedStandalone =
            SelectSeq(RetrievedNames, LAMBDA n : n \in Range(ListedStandalone))

\* text mode: B was returned before A, both are standalone, and B is listed
\* before A
C22_Witness ==
    /\ ~cfg.OutputJSON
    /\ JustResolved
    /\ RetrievedNames = <<"B", "A">>
    /\ ListedStandalone = <<"B", "A">>

\* JSON mode: the same
C22_WitnessJSON ==
    /\ cfg.OutputJSON
    /\ JustResolved
    /\ RetrievedNames = <<"B", "A">>
    /\ ListedStandalone = <<"B", "A">>

----------------------------------------------------------------------------
(* The clusters are classified one by one.                                 *)

\* the names of the datastores listed for the clusters before the last one
ListedEarlier ==
    IF cfg.OutputJSON
    THEN UNION {{InfosOf(infraInfo.Clusters[c])[i].Name :
                    i \in 1..Len(InfosOf(infraInfo.Clusters[c]))} :
                c \in 1..(Len(infraInfo.Clusters) - 1)}
    ELSE Range(DatastoreNames(BeforeLast(out, "cluster")))

\* the names of the members of a pod that the last cluster reaches, in
\* member order
ReachedMembers(pod) ==
    LET refs == SelectSeq(pod.ChildEntity, LAMBDA r : r \in Range(clusterMo))
    IN  [i \in 1..Len(refs) |-> DsNames[refs[i]]]

\* C23: what is reported for a cluster depends on the datastores it reaches
\* and on the groups discovered for it alone.  Under the groups are the
\* members it reaches, as standalone the retrieved datastores that are in no
\* group, whatever was listed for the clusters before it; so a datastore
\* listed for an earlier cluster is listed again for this one if it reaches it.
C23_ClustersIsolated ==
    JustResolved =>
        /\ ListedInGroups =
              Concat([i \in 1..Len(storagePods) |-> ReachedMembers(storagePods[i])])
        /\ ListedStandalone =
              SelectSeq(RetrievedNames,
                        LAMBDA n : \A i \in 1..Len(storagePods) :
                                      n \notin Range(ReachedMembers(storagePods[i])))
        /\ ListedEarlier \cap ReachableNames
              \subseteq Range(ListedInGroups) \cup Range(ListedStandalone)

\* the second of two resolved clusters lists under a group a datastore that
\* the first listed, and as standalone another that the first listed
C23_Witness ==
    /\ JustResolved
    /\ passes = <<"resolved", "resolved">>
    /\ ListedEarlier \cap Range(ListedInGroups) # {}
    /\ ListedEarlier \cap Range(ListedStandalone) # {}

----------------------------------------------------------------------------
(* The two output modes.                                                   *)

\* a listed datastore, whichever the mode: its name and its sizes in
\* hundredths of a GB
ItemOfLine(l) == [name |-> l.text, cap |-> l.cap, free |-> l.free]
ItemOfInfo(info) == [name |-> info.Name, cap |-> Hundredths(info.Capacity),
                     free |-> Hundredths(info.FreeSpace)]

\* the classification that text lines show: the groups with the datastores
\* under them, the groups without any left out, and the standalone ones
TextClassification(lines) ==
    LET ps     == SetToSeq(Where(lines, "datastoreCluster"))
        g(p)   == LET n == LeadingDs(SubSeq(lines, p + 1, Len(lines)))
                  IN  [name  |-> lines[p].text,
                       items |-> [k \in 1..n |-> ItemOfLine(lines[p + k])]]
        alone  == SelectSeq(FromLast(lines, "standaloneHeader"),
                            LAMBDA l : l.kind = "ds")
    IN  [groups     |-> SelectSeq([i \in 1..Len(ps) |-> g(ps[i])],
                                  LAMBDA x : x.items # <<>>),
         standalone |-> [i \in 1..Len(alone) |-> ItemOfLine(alone[i])]]

\* the classification that a ClusterInfo holds
JSONClassification(entry) ==
    LET g(grp) == [name  |-> grp.Name,
                   items |-> [k \in 1..Len(grp.Datastores) |->
                                 ItemOfInfo(grp.Datastores[k])]]
    IN  [groups     |-> [i \in 1..Len(entry.DatastoreClusters) |->
                            g(entry.DatastoreClusters[i])],
         standalone |-> [i \in 1..Len(entry.StandaloneDatastores) |->
                            ItemOfInfo(entry.StandaloneDatastores[i])]]

\* C24: the modes agree on the classification.  What a resolved cluster got
\* in the mode of the run is, group by group and in the same order, what the
\* other mode produces from the same pods and datastores; text mode shows in
\* addition the groups without a reachable member.
C24_ModesAgree ==
    JustResolved =>
        IF cfg.OutputJSON
        THEN JSONClassification(LastClusterInfo) =
                 TextClassification(
                     GroupLines(storagePods, datastoreMap(datastores))
                     \o StandaloneLines(datastores, storagePods))
        ELSE TextClassification(LastClusterLines) =
                 JSONClassification(
                     [DatastoreClusters |->
                          DatastoreClusters(storagePods, datastoreMap(datastores)),
                      StandaloneDatastores |->
                          StandaloneDatastores(datastores, storagePods)])

\* text mode: a group with two reachable members, and a group without any,
\* which only the text shows
C24_Witness ==
    /\ ~cfg.OutputJSON
    /\ JustResolved
    /\ Len(storagePods) = 2
    /\ "noDatastoresInPod" \in Kinds(LastClusterLines)
    /\ Len(TextClassification(LastClusterLines).groups) = 1
    /\ Len(TextClassification(LastClusterLines).groups[1].items) = 2

\* JSON mode: a group with a member and a standalone datastore
C24_WitnessJSON ==
    /\ cfg.OutputJSON
    /\ JustResolved
    /\ JSONClassification(LastClusterInfo).groups # <<>>
    /\ JSONClassification(LastClusterInfo).standalone # <<>>

----------------------------------------------------------------------------
(* The output of a successful run in JSON mode.                            *)

\* C25: in JSON mode a run that ends with status 0 has written exactly one
\* JSON document and nothing else, also for a datacenter without clusters.
C25_OneDocumentOnSuccess ==
    (cfg.OutputJSON /\ pc = "exited" /\ exitCode = 0) =>
        /\ Len(docs) = 1
        /\ out = <<>>

\* the failing run: JSON mode, no clusters, status 0, one line of text and no
\* document
C25_NoClustersText ==
    /\ cfg.OutputJSON
    /\ pc = "exited"
    /\ exitCode = 0
    /\ docs = <<>>
    /\ KindsOf(out) = <<"noClusters">>

\* a run with clusters does write the one document and nothing else
C25_DocumentOnly ==
    /\ cfg.OutputJSON
    /\ pc = "exited"
    /\ exitCode = 0
    /\ Len(docs) = 1
    /\ out = <<>>
    /\ docs[1].Clusters # <<>>

====
